---- MODULE Spec2Model ----
(***************************************************************************)
(* A model of generate_palette.py: the colour arithmetic (hex, RGB, HLS,   *)
(* the ten-step shade ramp, the text colour), the parser of colors.txt,    *)
(* the text renderers, the grid of the palette image and the driver main().*)
(*                                                                         *)
(* Python floats are IEEE-754 doubles.  The colour arithmetic depends on   *)
(* their rounding (a luminance of exactly one half in the reals can round  *)
(* below 0.5), so doubles are modelled exactly: a double is a sign, a      *)
(* 53-bit mantissa and an exponent, every operation computes the exact     *)
(* result and rounds it to nearest, ties to even.  Mantissas do not fit    *)
(* the integers of the model checker, so they are little-endian sequences  *)
(* of 15-bit limbs.  No value of the program is subnormal, infinite or NaN.*)
(***************************************************************************)
EXTENDS Integers, Sequences, FiniteSets, TLC

(***************************************************************************)
(* Natural numbers of any size: little-endian sequences of limbs, without  *)
(* leading zero limbs; zero is the empty sequence.                         *)
(***************************************************************************)
LimbBits == 15
LimbBase == 2 ^ LimbBits

Tl(a) == IF a = <<>> THEN <<>> ELSE Tail(a)
Hd(a) == IF a = <<>> THEN 0 ELSE Head(a)

RECURSIVE BNTrim(_)
BNTrim(a) ==
  IF a = <<>> THEN a
  ELSE IF a[Len(a)] = 0 THEN BNTrim(SubSeq(a, 1, Len(a) - 1)) ELSE a

RECURSIVE BNFromInt(_)
BNFromInt(n) ==
  IF n = 0 THEN <<>> ELSE <<n % LimbBase>> \o BNFromInt(n \div LimbBase)

RECURSIVE BNToInt(_)
BNToInt(a) ==
  IF a = <<>> THEN 0 ELSE Head(a) + LimbBase * BNToInt(Tail(a))

RECURSIVE BNAddC(_, _, _)
BNAddC(a, b, c) ==
  IF a = <<>> /\ b = <<>> THEN (IF c = 0 THEN <<>> ELSE <<c>>)
  ELSE LET x == Hd(a) + Hd(b) + c
       IN  <<x % LimbBase>> \o BNAddC(Tl(a), Tl(b), x \div LimbBase)

BNAdd(a, b) == BNAddC(a, b, 0)

\* a - b - c for a >= b + c
RECURSIVE BNSubC(_, _, _)
BNSubC(a, b, c) ==
  IF a = <<>> THEN <<>>
  ELSE LET x == Hd(a) - Hd(b) - c
       IN  IF x < 0 THEN <<x + LimbBase>> \o BNSubC(Tl(a), Tl(b), 1)
                    ELSE <<x>> \o BNSubC(Tl(a), Tl(b), 0)

BNSub(a, b) == BNTrim(BNSubC(a, b, 0))

\* -1, 0 or 1 as a < b, a = b or a > b
RECURSIVE BNCmpAt(_, _, _)
BNCmpAt(a, b, i) ==
  IF i = 0 THEN 0
  ELSE IF a[i] < b[i] THEN -1
  ELSE IF a[i] > b[i] THEN 1
  ELSE BNCmpAt(a, b, i - 1)

BNCmp(a, b) ==
  IF Len(a) < Len(b) THEN -1
  ELSE IF Len(a) > Len(b) THEN 1
  ELSE BNCmpAt(a, b, Len(a))

\* a * k + c for a limb k
RECURSIVE BNMulSmallC(_, _, _)
BNMulSmallC(a, k, c) ==
  IF a = <<>> THEN (IF c = 0 THEN <<>> ELSE <<c>>)
  ELSE LET x == Head(a) * k + c
       IN  <<x % LimbBase>> \o BNMulSmallC(Tail(a), k, x \div LimbBase)

BNMulSmall(a, k) == IF k = 0 THEN <<>> ELSE BNMulSmallC(a, k, 0)

\* a * LimbBase^q
BNShiftLimbs(a, q) ==
  IF a = <<>> THEN <<>> ELSE [i \in 1..q |-> 0] \o a

RECURSIVE BNMul(_, _)
BNMul(a, b) ==
  IF a = <<>> \/ b = <<>> THEN <<>>
  ELSE BNAdd(BNMulSmall(a, Head(b)), BNShiftLimbs(BNMul(a, Tail(b)), 1))

RECURSIVE BitLenSmall(_)
BitLenSmall(n) == IF n = 0 THEN 0 ELSE 1 + BitLenSmall(n \div 2)

BNBitLen(a) ==
  IF a = <<>> THEN 0 ELSE LimbBits * (Len(a) - 1) + BitLenSmall(a[Len(a)])

\* a * 2^k
BNShl(a, k) ==
  BNShiftLimbs(BNMulSmall(a, 2 ^ (k % LimbBits)), k \div LimbBits)

\* floor(a / 2^r) for r < LimbBits, from the top limb down
RECURSIVE BNShrSmallAt(_, _, _, _)
BNShrSmallAt(a, r, i, carry) ==
  IF i = 0 THEN <<>>
  ELSE LET x == carry * LimbBase + a[i]
       IN  BNShrSmallAt(a, r, i - 1, x % (2 ^ r)) \o <<x \div (2 ^ r)>>

\* floor(a / 2^r) for r < LimbBits
BNShrSmall(a, r) == BNTrim(BNShrSmallAt(a, r, Len(a), 0))

\* floor(a / 2^k)
BNShr(a, k) ==
  BNShrSmall(IF k \div LimbBits >= Len(a) THEN <<>>
             ELSE SubSeq(a, (k \div LimbBits) + 1, Len(a)),
             k % LimbBits)

\* a mod 2^k /= 0: one of the limbs below the cut, or the low part of the
\* limb the cut goes through, is not zero
BNLowBits(a, k) ==
  \/ \E i \in 1..(k \div LimbBits) : i <= Len(a) /\ a[i] # 0
  \/ /\ k \div LimbBits < Len(a)
     /\ a[(k \div LimbBits) + 1] % (2 ^ (k % LimbBits)) # 0

\* x / 2 to the nearest, ties to even; sticky tells that x stands for a value
\* a little above x
BNHalfEven(x, sticky) ==
  BNShr(IF (Hd(x) % 2 = 1 /\ sticky) \/ Hd(x) % 4 = 3 THEN BNAdd(x, <<1>>) ELSE x, 1)

\* a / 2^k to the nearest, ties to even, for k >= 1
BNRoundShr(a, k) == BNHalfEven(BNShr(a, k - 1), BNLowBits(a, k - 1))

\* One step of long division by d: the state <<q, rem>> with rem < d becomes
\* <<2q + bit, 2rem - bit * d>>
BNDivBit(q2, r2, d) ==
  IF BNCmp(r2, d) >= 0 THEN <<BNAdd(q2, <<1>>), BNSub(r2, d)>> ELSE <<q2, r2>>

BNDivStep(st, d) == BNDivBit(BNShl(st[1], 1), BNShl(st[2], 1), d)

\* k steps of long division; once the remainder is zero the remaining bits
\* of the quotient are zero
RECURSIVE BNDivBits(_, _, _)
BNDivBits(st, d, k) ==
  IF k = 0 \/ st[2] = <<>> THEN <<BNShl(st[1], k), st[2]>>
  ELSE BNDivBits(BNDivStep(st, d), d, k - 1)

\* <<floor(n * 2^k / d), remainder>> for n < 2 * d
BNDivScaled(n, d, k) ==
  BNDivBits(IF BNCmp(n, d) >= 0 THEN <<<<1>>, BNSub(n, d)>> ELSE <<<<>>, n>>, d, k)

(***************************************************************************)
(* Doubles: [s, m, e] is (-1)^s * m * 2^e with 2^52 <= m < 2^53, or zero.  *)
(***************************************************************************)
MantBits == 53

FZero == [s |-> 0, m |-> <<>>, e |-> 0]

\* A rounded mantissa q of MantBits bits, or of one more after a carry
FPack(s, q, e) ==
  IF BNBitLen(q) > MantBits THEN [s |-> s, m |-> BNShr(q, 1), e |-> e + 1]
                            ELSE [s |-> s, m |-> q, e |-> e]

\* M of n bits: a short M is shifted up, a long one is cut to the nearest
FRoundBits(s, M, e, n) ==
  IF n <= MantBits
  THEN [s |-> s, m |-> BNShl(M, MantBits - n), e |-> e - (MantBits - n)]
  ELSE FPack(s, BNRoundShr(M, n - MantBits), e + (n - MantBits))

\* The double nearest to (-1)^s * M * 2^e, ties to even.
FRound(s, M, e) == IF M = <<>> THEN FZero ELSE FRoundBits(s, M, e, BNBitLen(M))

FInt(n) == FRound(IF n < 0 THEN 1 ELSE 0, BNFromInt(IF n < 0 THEN -n ELSE n), 0)

FNeg(a) == IF a.m = <<>> THEN a ELSE [a EXCEPT !.s = 1 - a.s]

\* -1, 0, 1 as |a| < |b|, |a| = |b|, |a| > |b|
FCmpAbs(a, b) ==
  IF a.m = <<>> THEN (IF b.m = <<>> THEN 0 ELSE -1)
  ELSE IF b.m = <<>> THEN 1
  ELSE IF a.e < b.e THEN -1
  ELSE IF a.e > b.e THEN 1
  ELSE BNCmp(a.m, b.m)

FCmp(a, b) ==
  IF a.m = <<>> /\ b.m = <<>> THEN 0
  ELSE IF a.m = <<>> THEN (IF b.s = 1 THEN 1 ELSE -1)
  ELSE IF b.m = <<>> THEN (IF a.s = 1 THEN -1 ELSE 1)
  ELSE IF a.s # b.s THEN (IF a.s = 1 THEN -1 ELSE 1)
  ELSE IF a.s = 0 THEN FCmpAbs(a, b) ELSE FCmpAbs(b, a)

FLt(a, b) == FCmp(a, b) < 0
FLe(a, b) == FCmp(a, b) <= 0
FEq(a, b) == FCmp(a, b) = 0

\* Python's max(a, b) and min(a, b): the first argument unless the second is
\* strictly greater (smaller)
FMax(a, b) == IF FLt(a, b) THEN b ELSE a
FMin(a, b) == IF FLt(b, a) THEN b ELSE a

\* The sum of (-1)^sa * x * 2^e and (-1)^sb * y * 2^e
FAddAligned(sa, x, sb, y, e) ==
  FRound(IF sa = sb \/ BNCmp(x, y) >= 0 THEN sa ELSE sb,
         IF sa = sb THEN BNAdd(x, y)
         ELSE IF BNCmp(x, y) >= 0 THEN BNSub(x, y) ELSE BNSub(y, x),
         e)

\* a + b with both mantissas brought to the exponent e, the smaller of the two
FAddAt(a, b, e) == FAddAligned(a.s, BNShl(a.m, a.e - e), b.s, BNShl(b.m, b.e - e), e)

FAdd(a, b) ==
  IF a.m = <<>> THEN b
  ELSE IF b.m = <<>> THEN a
  ELSE FAddAt(a, b, IF a.e < b.e THEN a.e ELSE b.e)

FSub(a, b) == FAdd(a, FNeg(b))

FMul(a, b) ==
  IF a.m = <<>> \/ b.m = <<>> THEN FZero
  ELSE FRound((a.s + b.s) % 2, BNMul(a.m, b.m), a.e + b.e)

\* The quotient qr[1] with one more bit, set when the remainder qr[2] is not
\* zero, decides the rounding
FDivRound(s, qr, e) ==
  FRound(s, BNAdd(BNShl(qr[1], 1), IF qr[2] = <<>> THEN <<>> ELSE <<1>>), e)

\* a / b, b nonzero: two more quotient bits than the mantissa holds
FDiv(a, b) ==
  IF a.m = <<>> THEN FZero
  ELSE FDivRound((a.s + b.s) % 2, BNDivScaled(a.m, b.m, MantBits + 2),
                 a.e - b.e - (MantBits + 2) - 1)

\* |a| - floor(|a|), exactly
FFracAbs(a) ==
  IF a.m = <<>> \/ a.e >= 0 THEN FZero
  ELSE FRound(0, BNSub(a.m, BNShl(BNShr(a.m, -a.e), -a.e)), a.e)

\* fmod(a, 1.0) has the sign s of a and the magnitude f; Python's % adds 1.0
\* when it is negative
FModWrap(s, f) == IF s = 1 /\ f.m # <<>> THEN FAdd(FNeg(f), FInt(1)) ELSE f

\* Python's a % 1.0
FModOne(a) == FModWrap(a.s, FFracAbs(a))

\* Python's int(a): truncation toward zero
FTrunc(a) ==
  IF a.m = <<>> THEN 0
  ELSE (IF a.s = 1 THEN -1 ELSE 1)
       * BNToInt(IF a.e >= 0 THEN BNShl(a.m, a.e) ELSE BNShr(a.m, -a.e))

\* The double a decimal literal p/q denotes: the nearest to the rational
FLit(p, q) == FDiv(FInt(p), FInt(q))

(***************************************************************************)
(* Strings are sequences of one-character strings.                         *)
(***************************************************************************)
HexChars == <<"0", "1", "2", "3", "4", "5", "6", "7", "8", "9",
              "a", "b", "c", "d", "e", "f">>
DecChars == <<"0", "1", "2", "3", "4", "5", "6", "7", "8", "9">>
LowerLetters == <<"a", "b", "c", "d", "e", "f", "g", "h", "i", "j", "k", "l", "m",
                  "n", "o", "p", "q", "r", "s", "t", "u", "v", "w", "x", "y", "z">>
UpperLetters == <<"A", "B", "C", "D", "E", "F", "G", "H", "I", "J", "K", "L", "M",
                  "N", "O", "P", "Q", "R", "S", "T", "U", "V", "W", "X", "Y", "Z">>
\* str.strip() and the pattern's \s take these for white space: blank, \t,
\* \n, \r, \x0b, \x0c and \x1c to \x1f (the inputs of the model are ASCII)
SpaceChars == {" ", "\t", "\n", "\r", "", "\f", "", "", "", ""}

IndexIn(seq, c) == CHOOSE i \in 1..Len(seq) : seq[i] = c
IsIn(seq, c) == \E i \in 1..Len(seq) : seq[i] = c

lower_char(c) == IF IsIn(UpperLetters, c) THEN LowerLetters[IndexIn(UpperLetters, c)] ELSE c
upper_char(c) == IF IsIn(LowerLetters, c) THEN UpperLetters[IndexIn(LowerLetters, c)] ELSE c

\* str.lower(), str.upper()
str_lower(s) == [i \in 1..Len(s) |-> lower_char(s[i])]
str_upper(s) == [i \in 1..Len(s) |-> upper_char(s[i])]

\* str.replace(a, b) for one-character a and b
str_replace(s, a, b) == [i \in 1..Len(s) |-> IF s[i] = a THEN b ELSE s[i]]

\* The number of leading (trailing) characters of s that are in set
LeadCount(s, set) ==
  IF \A i \in 1..Len(s) : s[i] \in set THEN Len(s)
  ELSE (CHOOSE i \in 1..Len(s) : s[i] \notin set /\ \A j \in 1..(i - 1) : s[j] \in set) - 1
TrailCount(s, set) ==
  IF \A i \in 1..Len(s) : s[i] \in set THEN Len(s)
  ELSE Len(s) - (CHOOSE i \in 1..Len(s) : s[i] \notin set /\ \A j \in (i + 1)..Len(s) : s[j] \in set)

\* str.lstrip(chars), str.strip()
str_lstrip(s, set) == SubSeq(s, LeadCount(s, set) + 1, Len(s))
str_rstrip(s, set) == SubSeq(s, 1, Len(s) - TrailCount(s, set))
str_strip(s) == str_rstrip(str_lstrip(s, SpaceChars), SpaceChars)

IsHexChar(c) == IsIn(HexChars, lower_char(c))
HexVal(c) == IndexIn(HexChars, lower_char(c)) - 1

\* int(s, 16)
RECURSIVE int16(_)
int16(s) == IF s = <<>> THEN 0 ELSE 16 * int16(SubSeq(s, 1, Len(s) - 1)) + HexVal(s[Len(s)])

\* format(n, "x") and format(n, "d") for n >= 0
RECURSIVE fmt_x(_)
fmt_x(n) == IF n < 16 THEN <<HexChars[n + 1]>> ELSE fmt_x(n \div 16) \o <<HexChars[(n % 16) + 1]>>
RECURSIVE fmt_d(_)
fmt_d(n) == IF n < 10 THEN <<DecChars[n + 1]>> ELSE fmt_d(n \div 10) \o <<DecChars[(n % 10) + 1]>>

\* format(n, "x") in the place of "02x": no padding
fmt_02x_unpadded(n) == IF n < 0 THEN <<"-">> \o fmt_x(-n) ELSE fmt_x(n)

\* format(n, "02x"): at least two digits, padded with zeros; a minus sign
\* counts for the width
fmt_02x(n) ==
  IF n < 0 THEN <<"-">> \o fmt_x(-n)
  ELSE IF n < 16 THEN <<"0">> \o fmt_x(n) ELSE fmt_x(n)

\* 10 * x to the nearest integer, ties to even, for a double x >= 0
tenths(x) ==
  IF x.m = <<>> THEN 0
  ELSE IF x.e >= 0 THEN BNToInt(BNShl(BNMulSmall(x.m, 10), x.e))
  ELSE BNToInt(BNRoundShr(BNMulSmall(x.m, 10), -x.e))

fmt_tenths(t) == fmt_d(t \div 10) \o <<".">> \o fmt_d(t % 10)

\* format(x, ".1f") for a double x >= 0: the exact value of x rounded to one
\* decimal, ties to even
fmt_1f(x) == fmt_tenths(tenths(x))

(***************************************************************************)
(* The colour model                                                        *)
(***************************************************************************)
\* tuple(int(hex_color[i:i+2], 16) for i in (0, 2, 4)) of the stripped string
hex_pairs(h) == <<int16(SubSeq(h, 1, 2)), int16(SubSeq(h, 3, 4)), int16(SubSeq(h, 5, 6))>>

hex_to_rgb(hex_color) == hex_pairs(str_lstrip(hex_color, {"#"}))

rgb_to_hex(rgb) == <<"#">> \o fmt_02x(rgb[1]) \o fmt_02x(rgb[2]) \o fmt_02x(rgb[3])

\* The float literals of the program and of colorsys
F_0 == FZero
F_1 == FInt(1)
F_2 == FInt(2)
F_4 == FInt(4)
F_6 == FInt(6)
F_100 == FInt(100)
F_255 == FInt(255)
F_360 == FInt(360)
F_half == FRound(0, <<1>>, -1)
F_0_01 == FLit(1, 100)
F_0_99 == FLit(99, 100)
F_0_299 == FLit(299, 1000)
F_0_587 == FLit(587, 1000)
F_0_114 == FLit(114, 1000)
ONE_THIRD == FDiv(F_1, FInt(3))
ONE_SIXTH == FDiv(F_1, F_6)
TWO_THIRD == FDiv(F_2, FInt(3))

\* x / 255.0 for the channel values
unit_channel == [x \in 0..255 |-> FDiv(FInt(x), F_255)]
unit_rgb(rgb) == [i \in 1..3 |-> unit_channel[rgb[i]]]

\* colorsys.rgb_to_hls, the hue before it is scaled: c is <<rc, gc, bc>>
rgb_to_hls_hue(r, g, maxc, c) ==
  IF FEq(r, maxc) THEN FSub(c[3], c[2])
  ELSE IF FEq(g, maxc) THEN FSub(FAdd(F_2, c[1]), c[3])
  ELSE FSub(FAdd(F_4, c[2]), c[1])

\* colorsys.rgb_to_hls once maxc, minc, sumc, rangec and l are known
rgb_to_hls_of(r, g, b, maxc, minc, sumc, rangec, l) ==
  IF FEq(minc, maxc) THEN <<F_0, l, F_0>>
  ELSE <<FModOne(FDiv(rgb_to_hls_hue(r, g, maxc,
                        [i \in 1..3 |-> FDiv(FSub(maxc, <<r, g, b>>[i]), rangec)]),
                      F_6)),
         l,
         IF FLe(l, F_half) THEN FDiv(rangec, sumc)
         ELSE FDiv(rangec, FSub(FSub(F_2, maxc), minc))>>

rgb_to_hls_sums(r, g, b, maxc, minc, sumc) ==
  rgb_to_hls_of(r, g, b, maxc, minc, sumc, FSub(maxc, minc), FDiv(sumc, F_2))

rgb_to_hls_extremes(r, g, b, maxc, minc) ==
  rgb_to_hls_sums(r, g, b, maxc, minc, FAdd(maxc, minc))

\* colorsys.rgb_to_hls: <<h, l, s>>
rgb_to_hls(r, g, b) ==
  rgb_to_hls_extremes(r, g, b, FMax(FMax(r, g), b), FMin(FMin(r, g), b))

\* colorsys._v after hue = hue % 1.0
hls_v_of(m1, m2, hue) ==
  IF FLt(hue, ONE_SIXTH) THEN FAdd(m1, FMul(FMul(FSub(m2, m1), hue), F_6))
  ELSE IF FLt(hue, F_half) THEN m2
  ELSE IF FLt(hue, TWO_THIRD)
       THEN FAdd(m1, FMul(FMul(FSub(m2, m1), FSub(TWO_THIRD, hue)), F_6))
  ELSE m1

\* colorsys._v
hls_v(m1, m2, hue) == hls_v_of(m1, m2, FModOne(hue))

\* colorsys.hls_to_rgb once m2 is known: m1, then the channels at the hues
\* h + 1/3, h, h - 1/3
hls_to_rgb_channels(m1, m2, hues) == [i \in 1..3 |-> hls_v(m1, m2, hues[i])]

hls_to_rgb_of(h, l, m2) ==
  hls_to_rgb_channels(FSub(FMul(F_2, l), m2), m2,
                      <<FAdd(h, ONE_THIRD), h, FSub(h, ONE_THIRD)>>)

\* colorsys.hls_to_rgb: <<r, g, b>>
hls_to_rgb(h, l, s) ==
  IF FEq(s, F_0) THEN <<l, l, l>>
  ELSE hls_to_rgb_of(h, l, IF FLe(l, F_half) THEN FMul(l, FAdd(F_1, s))
                           ELSE FSub(FAdd(l, s), FMul(l, s)))

\* colorsys.rgb_to_hls(r/255.0, g/255.0, b/255.0) of a colour's channels
rgb_hls(u) == rgb_to_hls(u[1], u[2], u[3])

\* (h * 360, s * 100, l * 100)
hsl_scaled(hls) == <<FMul(hls[1], F_360), FMul(hls[3], F_100), FMul(hls[2], F_100)>>

hex_to_hsl(hex_color) == hsl_scaled(rgb_hls(unit_rgb(hex_to_rgb(hex_color))))

\* The shade ramp's keys in the order of the returned mapping, and the
\* ratios of the lighter and of the darker steps
K50 == <<"5", "0">>
K100 == <<"1", "0", "0">>
K200 == <<"2", "0", "0">>
K300 == <<"3", "0", "0">>
K400 == <<"4", "0", "0">>
K500 == <<"5", "0", "0">>
K600 == <<"6", "0", "0">>
K700 == <<"7", "0", "0">>
K800 == <<"8", "0", "0">>
K900 == <<"9", "0", "0">>
ShadeKeys == <<K50, K100, K200, K300, K400, K500, K600, K700, K800, K900>>
lighter_ratios == <<<<K50, FLit(5, 100)>>, <<K100, FLit(15, 100)>>, <<K200, FLit(30, 100)>>,
                    <<K300, FLit(50, 100)>>, <<K400, FLit(70, 100)>>>>
darker_ratios == <<<<K600, FLit(30, 100)>>, <<K700, FLit(50, 100)>>, <<K800, FLit(70, 100)>>,
                   <<K900, FLit(85, 100)>>>>

\* The clamp of a lighter step: min(0.99, max(base_l + 0.01, lightness))
lighter_clamp(base_l, lightness) == FMin(F_0_99, FMax(FAdd(base_l, F_0_01), lightness))

\* The lightness of a lighter step: toward white, then clamped
lighter_lightness(base_l, ratio) ==
  lighter_clamp(base_l, FSub(F_1, FMul(FSub(F_1, base_l), ratio)))

\* The clamp of a darker step: max(0.01, min(base_l - 0.01, lightness))
darker_clamp(base_l, lightness) == FMax(F_0_01, FMin(FSub(base_l, F_0_01), lightness))

\* The lightness of a darker step: toward black, then clamped
darker_lightness(base_l, ratio) == darker_clamp(base_l, FMul(base_l, FSub(F_1, ratio)))

\* '#%02x%02x%02x' of the channels int(x * 255)
quantise(c) == rgb_to_hex([i \in 1..3 |-> FTrunc(FMul(c[i], F_255))])

\* The hex of the colour of hue h, the given lightness and saturation s
shade_hex(h, lightness, s) == quantise(hls_to_rgb(h, lightness, s))

\* The base colour's <<h, l, s>>
base_hls(hex_color) == rgb_hls(unit_rgb(hex_to_rgb(hex_color)))

\* The ratio of a key in a list of steps
ratio_of(ratios, key) == ratios[CHOOSE i \in 1..Len(ratios) : ratios[i][1] = key][2]

\* The lightness of the step of a key, which is in one of the two loops
step_lightness(base_l, key, lighter, darker) ==
  IF \E i \in 1..Len(lighter) : lighter[i][1] = key
  THEN lighter_lightness(base_l, ratio_of(lighter, key))
  ELSE darker_lightness(base_l, ratio_of(darker, key))

\* The lightness generate_shades uses for the step of a key other than "500"
shade_lightness(base_l, key) == step_lightness(base_l, key, lighter_ratios, darker_ratios)

\* The "500" entry computed like the other steps, from the base lightness,
\* in the place of the input string
shade_of_recomputed(hex_color, hls, key) ==
  shade_hex(hls[1], IF key = K500 THEN hls[2] ELSE shade_lightness(hls[2], key), hls[3])

\* The shade of the base colour for one key
shade_of(hex_color, hls, key) ==
  IF key = K500 THEN hex_color
  ELSE shade_hex(hls[1], shade_lightness(hls[2], key), hls[3])

\* The ramp of a base colour whose <<h, l, s>> is hls
ramp(hex_color, hls) ==
  [i \in 1..Len(ShadeKeys) |-> <<ShadeKeys[i], shade_of(hex_color, hls, ShadeKeys[i])>>]

\* generate_shades: the ordered mapping as a sequence of <<key, hex>>
generate_shades(hex_color, name) == ramp(hex_color, base_hls(hex_color))

\* 0.299 * r + 0.587 * g + 0.114 * b
weighted(u) == FAdd(FAdd(FMul(F_0_299, u[1]), FMul(F_0_587, u[2])), FMul(F_0_114, u[3]))

\* get_text_color
luminance(hex_color) == weighted(unit_rgb(hex_to_rgb(hex_color)))

WHITE == <<"#", "F", "F", "F", "F", "F", "F">>
BLACK == <<"#", "0", "0", "0", "0", "0", "0">>

get_text_color(hex_color) ==
  IF FLt(luminance(hex_color), F_half) THEN WHITE ELSE BLACK

(***************************************************************************)
(* The parser                                                              *)
(***************************************************************************)
NoMatch == [ok |-> FALSE, g1 |-> <<>>, g2 |-> <<>>]

\* What the dots of (.+) take of s: all of it up to its first newline
before_newline(s) ==
  IF \A i \in 1..Len(s) : s[i] # "\n" THEN s
  ELSE SubSeq(s, 1, (CHOOSE i \in 1..Len(s) :
                       s[i] = "\n" /\ \A j \in 1..(i - 1) : s[j] # "\n") - 1)

\* \s*(.+) on b, what follows the separator: c is b without its leading
\* white space.  \s* is greedy and gives a character back when nothing else is
\* left for (.+); the dot takes every character but the newline
re_match_name(g1, b, c) ==
  IF c # <<>> THEN [ok |-> TRUE, g1 |-> g1, g2 |-> before_newline(c)]
  ELSE IF \E j \in 1..Len(b) : b[j] # "\n"
  THEN [ok |-> TRUE, g1 |-> g1,
        g2 |-> <<b[CHOOSE j \in 1..Len(b) :
                     b[j] # "\n" /\ \A k \in (j + 1)..Len(b) : b[k] = "\n"]>>]
  ELSE NoMatch

\* \s*# on what follows the six digits: a is that without its leading white
\* space
re_match_sep(g1, a) ==
  IF a = <<>> \/ a[1] # "#" THEN NoMatch
  ELSE re_match_name(g1, Tail(a), str_lstrip(Tail(a), SpaceChars))

\* The pattern without its first \s*: ([0-9a-fA-F]{6})#\s*(.+)
re_match_no_space(line) ==
  IF Len(line) < 6 \/ \E i \in 1..6 : ~IsHexChar(line[i]) THEN NoMatch
  ELSE re_match_sep(SubSeq(line, 1, 6),
                    IF Len(line) >= 7 /\ line[7] = "#" THEN SubSeq(line, 7, Len(line))
                    ELSE <<>>)

\* re.match(r'([0-9a-fA-F]{6})\s*#\s*(.+)', line): anchored at the start of
\* the line only
re_match(line) ==
  IF Len(line) < 6 \/ \E i \in 1..6 : ~IsHexChar(line[i]) THEN NoMatch
  ELSE re_match_sep(SubSeq(line, 1, 6), str_lstrip(SubSeq(line, 7, Len(line)), SpaceChars))

\* '#' + match.group(1): the digits as they are written in the file
entry_hex_as_written(g1) == <<"#">> \o g1

\* '#' + match.group(1).lower()
entry_hex(g1) == <<"#">> \o str_lower(g1)

\* The ColorEntry of a hex code and of the second group
entry_of(hex_code, g2) ==
  [hex |-> hex_code, name |-> str_strip(g2),
   rgb |-> hex_to_rgb(hex_code), hsl |-> hex_to_hsl(hex_code)]

\* The ColorEntry of a match
color_entry(m) == entry_of(entry_hex(m.g1), m.g2)

\* if match: colors.append(...)
match_entry(m) == IF m.ok THEN <<color_entry(m)>> ELSE <<>>

\* if not line or line.startswith('#'): continue
parse_stripped(line) ==
  IF line = <<>> \/ line[1] = "#" THEN <<>> ELSE match_entry(re_match(line))

\* The entries one line of the file adds: none or one
parse_line(raw) == parse_stripped(str_strip(raw))

RECURSIVE parse_colors_file(_)
parse_colors_file(lines) ==
  IF lines = <<>> THEN <<>>
  ELSE parse_line(Head(lines)) \o parse_colors_file(Tail(lines))

(***************************************************************************)
(* The text renderers.  A text is a sequence of chunks, one for each       *)
(* string the code appends; a chunk is the sequence of its pieces: a       *)
(* literal of the source is one piece (a long literal is cut short), an    *)
(* interpolated value is one piece for each of its characters.             *)
(***************************************************************************)
RECURSIVE concat_all(_)
concat_all(seqs) == IF seqs = <<>> THEN <<>> ELSE Head(seqs) \o concat_all(Tail(seqs))

\* The slug without .replace(' ', '-')
name_slug_lower_only(name) == str_lower(name)

\* color['name'].lower().replace(' ', '-')
name_slug(name) == str_replace(str_lower(name), " ", "-")

css_vars_of(color, slug, shades) ==
  << <<"  --color-">> \o slug \o <<": ">> \o color.hex \o <<";\n">>,
     <<"  --color-">> \o slug \o <<"-rgb: ">> \o fmt_d(color.rgb[1]) \o <<", ">>
        \o fmt_d(color.rgb[2]) \o <<", ">> \o fmt_d(color.rgb[3]) \o <<";\n">>,
     <<"  --color-">> \o slug \o <<"-hsl: ">> \o fmt_1f(color.hsl[1]) \o <<", ">>
        \o fmt_1f(color.hsl[2]) \o <<"%, ">> \o fmt_1f(color.hsl[3]) \o <<"%;\n">>,
     <<"\n  /* ">> \o color.name \o <<" Shades */\n">> >>
  \o [i \in 1..Len(shades) |->
        <<"  --color-">> \o slug \o <<"-">> \o shades[i][1] \o <<": ">> \o shades[i][2]
           \o <<";\n">>]

\* The first loop of generate_css, for one colour
css_color_vars(color) ==
  css_vars_of(color, name_slug(color.name), generate_shades(color.hex, color.name))

css_classes_of(slug) ==
  << <<".bg-">> \o slug \o <<" { background-color: var(--color-">> \o slug \o <<"); }\n">>,
     <<".text-">> \o slug \o <<" { color: var(--color-">> \o slug \o <<"); }\n">>,
     <<".border-">> \o slug \o <<" { border-color: var(--color-">> \o slug \o <<"); }\n">> >>

\* The second loop of generate_css, for one colour
css_utility_classes(color) == css_classes_of(name_slug(color.name))

generate_css(colors) ==
  << <<":root {\n">>, <<"  /* Primary Colors */\n">> >>
  \o concat_all([i \in 1..Len(colors) |-> css_color_vars(colors[i])])
  \o << <<"}\n\n">>, <<"/* Utility Classes */\n">> >>
  \o concat_all([i \in 1..Len(colors) |-> css_utility_classes(colors[i])])

html_shade_of(shade, shade_text_color) ==
  <<"<div class=\"shade-block\" style=\"background-color: ">> \o shade[2]
  \o <<";\" ... copyHex('">> \o shade[2]
  \o <<"')\"><div class=\"shade-label\" style=\"color: ">> \o shade_text_color
  \o <<";\">">> \o shade[1]
  \o <<"</div><div class=\"shade-hex\" style=\"color: ">> \o shade_text_color
  \o <<";\">">> \o str_upper(shade[2]) \o <<"</div></div>\n">>

\* The inner loop of generate_html_preview, for one shade
html_shade_block(shade) == html_shade_of(shade, get_text_color(shade[2]))

html_block_of(color, shades, text_color) ==
  << <<"<div class=\"color-block\" style=\"background-color: ">> \o color.hex
     \o <<";\" ...><div class=\"color-name\" style=\"color: ">> \o text_color
     \o <<";\">">> \o color.name
     \o <<"</div><div class=\"color-hex\" style=\"color: ">> \o text_color
     \o <<";\">">> \o str_upper(color.hex)
     \o <<"</div>...<div class=\"shades-container\" ...>\n">> >>
  \o [i \in 1..Len(shades) |-> html_shade_block(shades[i])]
  \o << <<"</div></div>\n">> >>

\* The loop of generate_html_preview, for one colour
html_color_block(color) ==
  html_block_of(color, generate_shades(color.hex, color.name), get_text_color(color.hex))

generate_html_preview(colors) ==
  << <<"<!DOCTYPE html>...<div id=\"toast\" class=\"toast\"></div>\n">> >>
  \o concat_all([i \in 1..Len(colors) |-> html_color_block(colors[i])])
  \o (IF Len(colors) > 0
      THEN << <<"</div><div class=\"palette-image-section\">...palette.png...</div>\n">> >>
      ELSE <<>>)
  \o << <<"<script>...</script></body></html>\n">> >>

\* The literals of the section are cut to their labels
guidelines_section_of(color, slug) ==
  <<"### ">> \o color.name \o <<"\n\n**Hex:** ">> \o color.hex
  \o <<"\n**RGB:** rgb(">> \o fmt_d(color.rgb[1]) \o <<", ">> \o fmt_d(color.rgb[2])
  \o <<", ">> \o fmt_d(color.rgb[3]) \o <<")\n**HSL:** hsl(">>
  \o fmt_1f(color.hsl[1]) \o <<", ">> \o fmt_1f(color.hsl[2]) \o <<"%, ">>
  \o fmt_1f(color.hsl[3]) \o <<"%)\n**CSS Variable:** var(--color-">> \o slug
  \o <<")\n\n**Usage:**...Access via CSS variable: var(--color-">> \o slug
  \o <<"-[50-900])\n\n---\n\n">>

\* The loop of generate_guidelines, for one colour
guidelines_section(color) == guidelines_section_of(color, name_slug(color.name))

generate_guidelines(colors) ==
  << <<"# Color Palette Brand Guidelines\n\n## Overview...## Primary Colors\n\n">> >>
  \o [i \in 1..Len(colors) |-> guidelines_section(colors[i])]
  \o << <<"\n## Usage Guidelines...- Chrome DevTools Accessibility panel\n">> >>

\* The entry without the '#' the format string puts before the digits
tailwind_entry_bare(key, hex_without_hash) ==
  <<"          '">> \o key \o <<"': '">> \o hex_without_hash \o <<"',\n">>

\* config += f"          '{shade}': '#{hex_without_hash}',\n"
tailwind_entry(key, hex_without_hash) ==
  <<"          '">> \o key \o <<"': '", "#">> \o hex_without_hash \o <<"',\n">>

\* The inner loop of generate_tailwind_config, for one shade
tailwind_shade(shade) == tailwind_entry(shade[1], str_lstrip(shade[2], {"#"}))

tailwind_entries(slug, shades) ==
  << <<"        '">> \o slug \o <<"': {\n">> >>
  \o [i \in 1..Len(shades) |-> tailwind_shade(shades[i])]
  \o << <<"        },\n">> >>

\* The loop of generate_tailwind_config, for one colour
tailwind_color(color) ==
  tailwind_entries(name_slug(color.name), generate_shades(color.hex, color.name))

generate_tailwind_config(colors) ==
  << <<"/** @type {import('tailwindcss').Config} */\nmodule.exports = {\n  content: [],\n  theme: {\n    extend: {\n      colors: {\n">> >>
  \o concat_all([i \in 1..Len(colors) |-> tailwind_color(colors[i])])
  \o << <<"      },\n    },\n  },\n  plugins: [],\n}\n">> >>

(***************************************************************************)
(* The image renderers.  An image is described by what was drawn on it;    *)
(* the positions of the texts depend on the font's metrics and are left    *)
(* out.                                                                    *)
(***************************************************************************)
font_paths == <<"/System/Library/Fonts/SF-Mono-Regular.otf",
                "/System/Library/Fonts/Monaco.ttf",
                "/Library/Fonts/Consolas.ttf",
                "/usr/share/fonts/truetype/dejavu/DejaVuSansMono.ttf",
                "/System/Library/Fonts/Helvetica.ttc">>

NoImage == [kind |-> "none"]

\* The font loop without its break: the last path that loads is kept
select_font_last(installed) ==
  IF \E i \in 1..Len(font_paths) : font_paths[i] \in installed
  THEN font_paths[CHOOSE i \in 1..Len(font_paths) :
                     /\ font_paths[i] \in installed
                     /\ \A j \in (i + 1)..Len(font_paths) : font_paths[j] \notin installed]
  ELSE "load_default"

\* The font loop: the first path that loads, or the built-in default.
\* installed is the set of the paths ImageFont.truetype can load
select_font(installed) ==
  IF \E i \in 1..Len(font_paths) : font_paths[i] \in installed
  THEN font_paths[CHOOSE i \in 1..Len(font_paths) :
                     /\ font_paths[i] \in installed
                     /\ \A j \in 1..(i - 1) : font_paths[j] \notin installed]
  ELSE "load_default"

\* What is drawn on one swatch with the text in text_color
swatch_of(color, text_color) ==
  [fill |-> color.hex,
   text_color |-> text_color,
   shadow_color |-> IF text_color = WHITE THEN BLACK ELSE WHITE,
   name_text |-> str_upper(color.name),
   hex_text |-> str_upper(color.hex)]

\* What is drawn on one swatch
swatch_texts(color) == swatch_of(color, get_text_color(color.hex))

\* generate_color_image: <<returned value, image saved at output_path>>
generate_color_image(color, has_pil, installed) ==
  IF ~has_pil THEN <<FALSE, NoImage>>
  ELSE <<TRUE, [kind |-> "swatch", width |-> 200, height |-> 200,
                font |-> select_font(installed), swatch |-> swatch_texts(color)]>>

palette_cols(num_colors) == IF num_colors < 3 THEN num_colors ELSE 3
\* rows = num_colors // cols, the division rounded down
palette_rows_floor(num_colors) == num_colors \div palette_cols(num_colors)
palette_rows(num_colors) == (num_colors + palette_cols(num_colors) - 1) \div palette_cols(num_colors)

\* The cells filled column by column: row = idx % cols, col = idx // cols
palette_cell_transposed(idx, cols, color) ==
  [row |-> idx % cols, col |-> idx \div cols,
   x |-> (idx \div cols) * (200 * 2), y |-> (idx % cols) * (200 * 2),
   swatch |-> swatch_texts(color)]

\* The cell of the colour at Python index idx: its row, column and the
\* corner of its square on the 2x canvas
palette_cell(idx, cols, color) ==
  [row |-> idx \div cols, col |-> idx % cols,
   x |-> (idx % cols) * (200 * 2), y |-> (idx \div cols) * (200 * 2),
   swatch |-> swatch_texts(color)]

\* The image of a grid of cols columns and rows rows
palette_grid(colors, installed, cols, rows) ==
  [kind |-> "palette", width |-> cols * 200, height |-> rows * 200,
   cols |-> cols, rows |-> rows,
   font |-> select_font(installed),
   cells |-> [i \in 1..Len(colors) |-> palette_cell(i - 1, cols, colors[i])]]

\* generate_palette_image: <<returned value, image saved at output_path>>
generate_palette_image(colors, has_pil, installed) ==
  IF ~has_pil THEN <<FALSE, NoImage>>
  ELSE IF Len(colors) = 0 THEN <<FALSE, NoImage>>
  ELSE <<TRUE, palette_grid(colors, installed, palette_cols(Len(colors)),
                            palette_rows(Len(colors)))>>

(***************************************************************************)
(* The inputs: colors.txt is missing, or holds up to MaxLines consecutive  *)
(* lines of a corpus that has every kind of line the parser tells apart.   *)
(* A line is what the iteration of the file gives: it ends with its        *)
(* newline, but for the last line of a file that does not end with one.    *)
(***************************************************************************)
MaxLines == 2

Corpus == <<
  <<"f", "f", "0", "0", "0", "0", " ", "#", " ", "F", "i", "r", "e", " ", "R", "e", "d", "\n">>,
  <<"\n">>,
  <<"#", " ", "c", "o", "m", "m", "e", "n", "t", "\n">>,
  <<"0", "0", "F", "F", "0", "0", "#", "L", "i", "m", "e", "\n">>,
  <<"1", "2", "3", "4", "5", " ", "#", " ", "f", "i", "v", "e", "\n">>,
  <<"f", "f", "f", "f", "f", "f", " ", "#", " ", "W", "h", "i", "t", "e", "\n">>,
  <<"f", "f", "f", "f", "f", "f", " ", "#", " ", "W", "h", "i", "t", "e", "\n">>,
  <<"1", "2", "3", "4", "5", "6", "7", " ", "#", " ", "s", "e", "v", "e", "n", "\n">>,
  <<"0", "0", "0", "0", "0", "0", " ", "#", " ", "b", "l", "a", "c", "k", "\n">>,
  <<"a", "b", "c", "d", "e", "f", " ", "#", "\n">>,
  <<"0", "4", "c", "2", "6", "d", "\f", "#", "", "H", "a", "l", "f", "\n">>,
  <<" ", " ", "0", "0", "0", "0", "f", "f", " ", " ", "#", " ", " ", "D", "e", "e", "p", " ", "B", "l", "u", "e", " ", "\n">>,
  <<"0", "0", "0", "0", "F", "F", " ", "#", " ", "d", "e", "e", "p", " ", "b", "l", "u", "e", "\n">>,
  <<"\t", "", "\n">>,
  <<"3", "3", "6", "6", "9", "9", " ", "#", " ", "P", "a", "l", "e", "t", "t", "e", "\n">>,
  <<"f", "d", "f", "d", "f", "d", " ", "#", "#", " ", "x">>
>>

InputFiles ==
  {[exists |-> FALSE, lines |-> <<>>]} \cup
  {[exists |-> TRUE, lines |-> SubSeq(Corpus, w[1], w[1] + w[2] - 1)] :
     w \in {v \in (1..Len(Corpus)) \X (0..MaxLines) : v[1] + v[2] - 1 <= Len(Corpus)}}

\* The fonts of the machine: none of the candidates, or the Linux one
FontEnvs == {{}, {font_paths[4]}}

\* The colours the functions of the colour model are applied to, as channel
\* triples: the greys within NearRange steps of black and of white and the
\* two in the middle, the corners and the middles of the colour cube, a colour
\* of small channels, and colours whose luminance is exactly one half
NearRange == 3

ModelRgb ==
  {<<v, v, v>> : v \in (0..NearRange) \cup ((255 - NearRange)..255) \cup {127, 128}}
  \cup ({0, 128, 255} \X {0, 128, 255} \X {0, 128, 255})
  \cup {<<10, 11, 12>>, <<0, 204, 68>>, <<1, 173, 225>>, <<4, 194, 109>>}

\* The hex string of a ColorEntry with these channels
hex_string(rgb) ==
  <<"#", HexChars[(rgb[1] \div 16) + 1], HexChars[(rgb[1] % 16) + 1],
         HexChars[(rgb[2] \div 16) + 1], HexChars[(rgb[2] % 16) + 1],
         HexChars[(rgb[3] \div 16) + 1], HexChars[(rgb[3] % 16) + 1]>>

ModelHexes == {hex_string(rgb) : rgb \in ModelRgb}

\* The colour lists the image renderers are given: the first colours of the
\* corpus, up to MaxSwatches of them
MaxSwatches == 7

Roster == parse_colors_file(Corpus)

ColorLists == {SubSeq(Roster, 1, n) : n \in 0..MaxSwatches}

\* Any of the candidate fonts may be installed
FontSets == SUBSET {font_paths[i] : i \in 1..Len(font_paths)}

PALETTE_CSS == <<"p", "a", "l", "e", "t", "t", "e", ".", "c", "s", "s">>
INDEX_HTML == <<"i", "n", "d", "e", "x", ".", "h", "t", "m", "l">>
GUIDELINES_MD == <<"G", "U", "I", "D", "E", "L", "I", "N", "E", "S", ".", "m", "d">>
TAILWIND_CONFIG_JS == <<"t", "a", "i", "l", "w", "i", "n", "d", ".", "c", "o", "n", "f", "i", "g", ".", "j", "s">>
PALETTE_PNG == <<"p", "a", "l", "e", "t", "t", "e", ".", "p", "n", "g">>
DOT_PNG == <<".", "p", "n", "g">>

(***************************************************************************)
(* The state                                                               *)
(***************************************************************************)
VARIABLES
  pc,          \* where main() is: "start", "parse", "css", "html", "guidelines",
               \* "tailwind", "images", "swatch", "palette", "summary", "done";
               \* "call" when a function is applied on its own
  HAS_PIL,     \* whether the import of PIL succeeded
  installed,   \* the font files ImageFont.truetype can load
  colors_txt,  \* colors.txt: whether it exists, and its lines
  colors,      \* main's colors
  files,       \* the files written: path -> content
  writes,      \* the paths written, in order
  stdout,      \* the lines printed, without the pictographs some of them begin
               \* with (a string of this module holds ASCII only)
  img_idx,     \* the swatch loop: the colours done
  call,        \* the function applied on its own last, "none" before
  arg,         \* its argument
  ret          \* what it returned

vars == <<pc, HAS_PIL, installed, colors_txt, colors, files, writes, stdout, img_idx,
          call, arg, ret>>

NoFiles == [p \in {} |-> <<>>]

\* The program is run: python generate_palette.py
Init ==
  /\ pc = "start"
  /\ HAS_PIL \in BOOLEAN
  /\ installed \in FontEnvs
  /\ colors_txt \in InputFiles
  /\ colors = <<>>
  /\ files = NoFiles
  /\ writes = <<>>
  /\ stdout = <<>>
  /\ img_idx = 0
  /\ call = "none"
  /\ arg = <<>>
  /\ ret = <<>>

\* with open(path, 'w') as f: f.write(content), or img.save(path)
write_file(fs, path, content) ==
  [p \in (DOMAIN fs) \cup {path} |-> IF p = path THEN content ELSE fs[p]]

\* main, lines 838-843: the input file is looked for
Start ==
  /\ pc = "start"
  /\ IF ~colors_txt.exists
     THEN /\ stdout' = Append(stdout, <<"Error: colors.txt not found!">>)
          /\ pc' = "done"
     ELSE /\ stdout' = Append(stdout, <<"Parsing colors from colors.txt...">>)
          /\ pc' = "parse"
  /\ UNCHANGED <<HAS_PIL, installed, colors_txt, colors, files, writes, img_idx,
                 call, arg, ret>>

\* main without lines 846-848: the run goes on with no colour
Parse_without_abort ==
  /\ pc = "parse"
  /\ colors' = parse_colors_file(colors_txt.lines)
  /\ stdout' = Append(stdout, <<"Found ">> \o fmt_d(Len(colors')) \o <<" color(s)">>)
  /\ pc' = "css"
  /\ UNCHANGED <<HAS_PIL, installed, colors_txt, files, writes, img_idx, call, arg, ret>>

\* main, lines 844-850: the file is parsed; no colour ends the run
Parse ==
  /\ pc = "parse"
  /\ colors' = parse_colors_file(colors_txt.lines)
  /\ IF colors' = <<>>
     THEN /\ stdout' = Append(stdout, <<"No colors found in colors.txt!">>)
          /\ pc' = "done"
     ELSE /\ stdout' = Append(stdout, <<"Found ">> \o fmt_d(Len(colors')) \o <<" color(s)">>)
          /\ pc' = "css"
  /\ UNCHANGED <<HAS_PIL, installed, colors_txt, files, writes, img_idx, call, arg, ret>>

\* One text output: the announcement, the renderer, the write
WriteText(at, announce, path, content, next) ==
  /\ pc = at
  /\ stdout' = Append(stdout, <<announce>>)
  /\ files' = write_file(files, path, content)
  /\ writes' = Append(writes, path)
  /\ pc' = next
  /\ UNCHANGED <<HAS_PIL, installed, colors_txt, colors, img_idx, call, arg, ret>>

\* main, lines 852-855
WriteCss ==
  WriteText("css", "Generating CSS file...", PALETTE_CSS, generate_css(colors), "html")

\* main, lines 857-860
WriteHtml ==
  WriteText("html", "Generating HTML preview...", INDEX_HTML,
            generate_html_preview(colors), "guidelines")

\* main, lines 862-865
WriteGuidelines ==
  WriteText("guidelines", "Generating brand guidelines...", GUIDELINES_MD,
            generate_guidelines(colors), "tailwind")

\* main, lines 867-870
WriteTailwind ==
  WriteText("tailwind", "Generating Tailwind config...", TAILWIND_CONFIG_JS,
            generate_tailwind_config(colors), "images")

\* main without the test of HAS_PIL at line 873
Images_without_test ==
  /\ pc = "images"
  /\ stdout' = Append(stdout, <<"Generating color swatch images...">>)
  /\ pc' = "swatch"
  /\ UNCHANGED <<HAS_PIL, installed, colors_txt, colors, files, writes, img_idx,
                 call, arg, ret>>

\* main, lines 873-874 and 884-886: images only with PIL
Images ==
  /\ pc = "images"
  /\ IF HAS_PIL
     THEN /\ stdout' = Append(stdout, <<"Generating color swatch images...">>)
          /\ pc' = "swatch"
     ELSE /\ stdout' = stdout \o << <<"\nPIL/Pillow not installed. Skipping image generation.">>,
                                    <<"   Install with: pip install Pillow">> >>
          /\ pc' = "summary"
  /\ UNCHANGED <<HAS_PIL, installed, colors_txt, colors, files, writes, img_idx,
                 call, arg, ret>>

\* main, lines 875-879: one turn of the swatch loop
Swatch ==
  /\ pc = "swatch"
  /\ img_idx < Len(colors)
  /\ \E image_path \in {name_slug(colors[img_idx + 1].name) \o DOT_PNG},
        r \in {generate_color_image(colors[img_idx + 1], HAS_PIL, installed)} :
       IF r[1]
       THEN /\ files' = write_file(files, image_path, r[2])
            /\ writes' = Append(writes, image_path)
            /\ stdout' = Append(stdout, <<"  Generated ">> \o image_path)
       ELSE UNCHANGED <<files, writes, stdout>>
  /\ img_idx' = img_idx + 1
  /\ UNCHANGED <<pc, HAS_PIL, installed, colors_txt, colors, call, arg, ret>>

\* main, lines 881-883: the loop is over, the palette image
Palette ==
  /\ pc = "swatch"
  /\ img_idx = Len(colors)
  /\ \E r \in {generate_palette_image(colors, HAS_PIL, installed)} :
       IF r[1]
       THEN /\ files' = write_file(files, PALETTE_PNG, r[2])
            /\ writes' = Append(writes, PALETTE_PNG)
            /\ stdout' = stdout \o << <<"Generating palette image...">>,
                                      <<"  Generated palette.png">> >>
       ELSE /\ stdout' = Append(stdout, <<"Generating palette image...">>)
            /\ UNCHANGED <<files, writes>>
  /\ pc' = "summary"
  /\ UNCHANGED <<HAS_PIL, installed, colors_txt, colors, img_idx, call, arg, ret>>

\* main, lines 888-896
Summary ==
  /\ pc = "summary"
  /\ stdout' = stdout
       \o << <<"\nAll files generated successfully!">>,
             <<"  - palette.css (CSS variables and utilities)">>,
             <<"  - index.html (Visual preview)">>,
             <<"  - GUIDELINES.md (Brand guidelines)">>,
             <<"  - tailwind.config.js (Tailwind CSS configuration)">> >>
       \o (IF HAS_PIL
           THEN << <<"  - Individual color swatch images (.png)">>,
                   <<"  - Complete palette image (palette.png)">> >>
           ELSE <<>>)
       \o << <<"\nOpen index.html in your browser to see the palette!">> >>
  /\ pc' = "done"
  /\ UNCHANGED <<HAS_PIL, installed, colors_txt, colors, files, writes, img_idx,
                 call, arg, ret>>

Next ==
  \/ Start
  \/ Parse
  \/ WriteCss
  \/ WriteHtml
  \/ WriteGuidelines
  \/ WriteTailwind
  \/ Images
  \/ Swatch
  \/ Palette
  \/ Summary

Spec == Init /\ [][Next]_vars

(***************************************************************************)
(* The functions of the colour model applied on their own to the hex       *)
(* string of a ColorEntry.                                                 *)
(***************************************************************************)
InitColor ==
  /\ pc = "call"
  /\ HAS_PIL = FALSE
  /\ installed = {}
  /\ colors_txt = [exists |-> FALSE, lines |-> <<>>]
  /\ colors = <<>>
  /\ files = NoFiles
  /\ writes = <<>>
  /\ stdout = <<>>
  /\ img_idx = 0
  /\ call = "none"
  /\ arg \in ModelHexes
  /\ ret = <<>>

\* A function applied to arg returns result
Return(function, result) ==
  /\ call' = function
  /\ ret' = result
  /\ UNCHANGED <<pc, HAS_PIL, installed, colors_txt, colors, files, writes, stdout,
                 img_idx, arg>>

CallGenerateShades ==
  /\ pc = "call" /\ call = "none"
  /\ Return("generate_shades", generate_shades(arg, <<>>))

CallGetTextColor ==
  /\ pc = "call" /\ call = "none"
  /\ Return("get_text_color", get_text_color(arg))

CallHexToHsl ==
  /\ pc = "call" /\ call = "none"
  /\ Return("hex_to_hsl", hex_to_hsl(arg))

CallHexToRgb ==
  /\ pc = "call" /\ call = "none"
  /\ Return("hex_to_rgb", hex_to_rgb(arg))

\* rgb_to_hex applied to what hex_to_rgb returned
CallRgbToHex ==
  /\ pc = "call" /\ call = "hex_to_rgb"
  /\ Return("rgb_to_hex", rgb_to_hex(ret))

NextColor ==
  \/ CallGenerateShades
  \/ CallGetTextColor
  \/ CallHexToHsl
  \/ CallHexToRgb
  \/ CallRgbToHex

SpecColor == InitColor /\ [][NextColor]_vars

(***************************************************************************)
(* The image renderers applied on their own to a list of colours, with or  *)
(* without PIL and with any of the fonts installed.                        *)
(***************************************************************************)
InitImage ==
  /\ pc = "call"
  /\ HAS_PIL \in BOOLEAN
  /\ installed \in FontSets
  /\ colors_txt = [exists |-> FALSE, lines |-> <<>>]
  /\ colors \in ColorLists
  /\ files = NoFiles
  /\ writes = <<>>
  /\ stdout = <<>>
  /\ img_idx = 0
  /\ call = "none"
  /\ arg = <<>>
  /\ ret = <<>>

\* generate_palette_image(colors, path)
CallGeneratePaletteImage ==
  /\ pc = "call" /\ call = "none"
  /\ call' = "generate_palette_image"
  /\ ret' = generate_palette_image(colors, HAS_PIL, installed)
  /\ UNCHANGED <<pc, HAS_PIL, installed, colors_txt, colors, files, writes, stdout,
                 img_idx, arg>>

\* generate_color_image(colors[i], path) for one of the colours
CallGenerateColorImage ==
  /\ pc = "call" /\ call = "none"
  /\ \E i \in 1..Len(colors) :
       /\ arg' = colors[i]
       /\ ret' = generate_color_image(colors[i], HAS_PIL, installed)
  /\ call' = "generate_color_image"
  /\ UNCHANGED <<pc, HAS_PIL, installed, colors_txt, colors, files, writes, stdout,
                 img_idx>>

NextImage ==
  \/ CallGeneratePaletteImage
  \/ CallGenerateColorImage

SpecImage == InitImage /\ [][NextImage]_vars

(***************************************************************************)
(* The properties                                                          *)
(***************************************************************************)
IsPrefix(p, t) == Len(p) <= Len(t) /\ SubSeq(t, 1, Len(p)) = p
IsSuffix(p, t) == Len(p) <= Len(t) /\ SubSeq(t, Len(t) - Len(p) + 1, Len(t)) = p
HasChunk(text, chunk) == \E i \in 1..Len(text) : text[i] = chunk

\* Twice the HLS lightness of a hex colour on the scale of the channels:
\* the largest channel plus the smallest
Lightness2(hex) ==
  LET c == hex_to_rgb(hex)
      hi == CHOOSE x \in {c[1], c[2], c[3]} : \A y \in {c[1], c[2], c[3]} : x >= y
      lo == CHOOSE x \in {c[1], c[2], c[3]} : \A y \in {c[1], c[2], c[3]} : x <= y
  IN  hi + lo

\* A line of colors.txt that is a record: stripped, it is six hex digits,
\* white space or none, a '#' and at least one more character
HexDigitChars == {"0", "1", "2", "3", "4", "5", "6", "7", "8", "9",
                  "a", "b", "c", "d", "e", "f", "A", "B", "C", "D", "E", "F"}
\* The place of the first character after the digits that is not white space
SeparatorAt(line) ==
  CHOOSE j \in 7..Len(line) :
    line[j] \notin SpaceChars /\ \A k \in 7..(j - 1) : line[k] \in SpaceChars
RecordLine(raw) ==
  LET line == str_strip(raw)
  IN  /\ Len(line) >= 8
      /\ \A i \in 1..6 : line[i] \in HexDigitChars
      /\ line[SeparatorAt(line)] = "#"
      /\ SeparatorAt(line) < Len(line)
RecordHex(raw) == <<"#">> \o str_lower(SubSeq(str_strip(raw), 1, 6))
RecordName(raw) ==
  LET line == str_strip(raw)
  IN  str_strip(SubSeq(line, SeparatorAt(line) + 1, Len(line)))
HasRecords == colors_txt.exists /\ \E i \in 1..Len(colors_txt.lines) : RecordLine(colors_txt.lines[i])

\* The slug of a name: lowercased, every space replaced by a hyphen
SlugOf(name) == [j \in 1..Len(name) |-> IF name[j] = " " THEN "-" ELSE lower_char(name[j])]

FireRedSlug == <<"f", "i", "r", "e", "-", "r", "e", "d">>
FireRedHex == <<"#", "f", "f", "0", "0", "0", "0">>
WhiteHex == <<"#", "f", "f", "f", "f", "f", "f">>

\* C1: the ramp generate_shades returns for the hex of a ColorEntry has one
\* "500" entry, and it is the hex string itself
C1_Shade500IsBase ==
  call = "generate_shades" =>
    /\ \E i \in 1..Len(ret) : ret[i][1] = K500
    /\ \A i \in 1..Len(ret) : ret[i][1] = K500 => ret[i][2] = arg

\* The ramp of pure white has been computed
C1_Witness ==
  /\ call = "generate_shades"
  /\ arg = WhiteHex
  /\ ret[6] = <<K500, WhiteHex>>

\* C2: the ten shades generate_shades returns never get lighter from one key
\* to the next, 50 to 900, the "500" entry being the base colour
C2_RampMonotonic ==
  call = "generate_shades" =>
    \A i \in 1..(Len(ret) - 1) : Lightness2(ret[i][2]) >= Lightness2(ret[i + 1][2])

\* C3: rgb_to_hex applied to what hex_to_rgb returned for the hex string of
\* a ColorEntry gives the string back
C3_HexRoundTrip == call = "rgb_to_hex" => ret = arg

\* The round trip of a colour whose three channels are below 16
C3_Witness ==
  /\ call = "rgb_to_hex"
  /\ arg = <<"#", "0", "a", "0", "b", "0", "c">>
  /\ ret = arg

\* C4: get_text_color returns white exactly when the luminance
\* (299 R + 587 G + 114 B) / 255000 is below one half, black otherwise
C4_TextColorByLuminance ==
  call = "get_text_color" =>
    LET c == hex_to_rgb(arg)
    IN  ret = IF 299 * c[1] + 587 * c[2] + 114 * c[3] < 127500 THEN WHITE ELSE BLACK

\* C5: without colors.txt, or with no record in it, nothing is ever written
\* and the run ends right after the report
C5_NoRecordsNoOutput ==
  ~HasRecords =>
    /\ files = NoFiles
    /\ writes = <<>>
    /\ pc \in {"start", "parse", "done"}
    /\ pc = "done" =>
         stdout[Len(stdout)] = IF colors_txt.exists
                               THEN <<"No colors found in colors.txt!">>
                               ELSE <<"Error: colors.txt not found!">>

\* A run on a file of two lines, none of them a record, has ended
C5_Witness ==
  /\ pc = "done"
  /\ colors_txt.exists
  /\ Len(colors_txt.lines) = 2
  /\ ~HasRecords
  /\ files = NoFiles

\* C6: without PIL and with a record in colors.txt, no PNG is ever written,
\* the image steps are never entered, and the run ends with the four text
\* files written, the notice and the closing report printed
C6_NoPilTextOnly ==
  (~HAS_PIL /\ HasRecords) =>
    /\ \A p \in DOMAIN files : ~IsSuffix(DOT_PNG, p)
    /\ \A i \in 1..Len(writes) : ~IsSuffix(DOT_PNG, writes[i])
    /\ pc # "swatch"
    /\ pc = "done" =>
         /\ DOMAIN files = {PALETTE_CSS, INDEX_HTML, GUIDELINES_MD, TAILWIND_CONFIG_JS}
         /\ HasChunk(stdout, <<"\nPIL/Pillow not installed. Skipping image generation.">>)
         /\ HasChunk(stdout, <<"\nAll files generated successfully!">>)

\* A run without PIL on two records has ended
C6_Witness ==
  /\ ~HAS_PIL
  /\ pc = "done"
  /\ Len(colors) = 2
  /\ Len(writes) = 4

\* C7: once the file is parsed, colors holds one entry for each record line
\* and none for any other line, in the order of the lines, with the hex
\* lowercased behind a '#' and the name stripped
C7_OneEntryPerRecord ==
  (colors_txt.exists /\ pc \notin {"start", "parse"}) =>
    LET records == SelectSeq(colors_txt.lines, RecordLine)
    IN  /\ Len(colors) = Len(records)
        /\ \A i \in 1..Len(records) :
             /\ colors[i].hex = RecordHex(records[i])
             /\ colors[i].name = RecordName(records[i])

\* Two equal record lines have given two equal entries
C7_Witness ==
  /\ pc = "css"
  /\ Len(colors_txt.lines) = 2
  /\ colors_txt.lines[1] = colors_txt.lines[2]
  /\ Len(colors) = 2
  /\ colors[1] = colors[2]

\* C8: palette.css holds, for every colour, the declaration
\* --color-<slug>: <hex>; the classes .bg-<slug>, .text-<slug> and
\* .border-<slug>, and a declaration for each of the ten shade keys
C8_CssDeclarations ==
  PALETTE_CSS \in DOMAIN files =>
    \A i \in 1..Len(colors) :
      LET css == files[PALETTE_CSS]
          slug == SlugOf(colors[i].name)
      IN  /\ HasChunk(css, <<"  --color-">> \o slug \o <<": ">> \o colors[i].hex \o <<";\n">>)
          /\ HasChunk(css, <<".bg-">> \o slug \o <<" { background-color: var(--color-">>
                           \o slug \o <<"); }\n">>)
          /\ HasChunk(css, <<".text-">> \o slug \o <<" { color: var(--color-">>
                           \o slug \o <<"); }\n">>)
          /\ HasChunk(css, <<".border-">> \o slug \o <<" { border-color: var(--color-">>
                           \o slug \o <<"); }\n">>)
          /\ \A k \in 1..Len(ShadeKeys) :
               \E j \in 1..Len(css) :
                 IsPrefix(<<"  --color-">> \o slug \o <<"-">> \o ShadeKeys[k] \o <<": ">>,
                          css[j])

\* The file of "ff0000 # Fire Red" has --color-fire-red: #ff0000; and
\* .bg-fire-red
C8_Witness ==
  /\ PALETTE_CSS \in DOMAIN files
  /\ \E i \in 1..Len(colors) : colors[i].name = <<"F", "i", "r", "e", " ", "R", "e", "d">>
  /\ HasChunk(files[PALETTE_CSS],
              <<"  --color-">> \o FireRedSlug \o <<": ">> \o FireRedHex \o <<";\n">>)
  /\ \E j \in 1..Len(files[PALETTE_CSS]) :
       IsPrefix(<<".bg-">> \o FireRedSlug, files[PALETTE_CSS][j])

\* The place of the entry of colour i and key k in tailwind.config.js: the
\* opening, then for each colour its slug line, ten entries and a closing
TailwindAt(i, k) == 1 + (i - 1) * (Len(ShadeKeys) + 2) + 1 + k

\* C9 as amended: tailwind.config.js maps every colour's slug to a mapping
\* from each of the ten shade keys, in order, to the shade's hex value, a '#'
\* followed by its six digits
C9_TailwindHexWithHash ==
  TAILWIND_CONFIG_JS \in DOMAIN files =>
    \A i \in 1..Len(colors) :
      LET tw == files[TAILWIND_CONFIG_JS]
          shades == generate_shades(colors[i].hex, colors[i].name)
      IN  /\ tw[TailwindAt(i, 0)] = <<"        '">> \o SlugOf(colors[i].name) \o <<"': {\n">>
          /\ \A k \in 1..Len(ShadeKeys) :
               tw[TailwindAt(i, k)] =
                 <<"          '">> \o ShadeKeys[k] \o <<"': '">>
                 \o <<"#">> \o Tail(shades[k][2]) \o <<"',\n">>

\* The config of Fire Red has '500': '#ff0000'
C9_Witness ==
  /\ TAILWIND_CONFIG_JS \in DOMAIN files
  /\ colors[1].hex = FireRedHex
  /\ files[TAILWIND_CONFIG_JS][TailwindAt(1, 6)] =
       <<"          '", "5", "0", "0", "': '", "#", "f", "f", "0", "0", "0", "0", "',\n">>

\* C9 as stated: the value of every shade key is the shade's hex without the
\* leading '#'
C9_TailwindHexWithoutHash ==
  TAILWIND_CONFIG_JS \in DOMAIN files =>
    \A i \in 1..Len(colors) :
      LET tw == files[TAILWIND_CONFIG_JS]
          shades == generate_shades(colors[i].hex, colors[i].name)
      IN  \A k \in 1..Len(ShadeKeys) :
            tw[TailwindAt(i, k)] =
              <<"          '">> \o ShadeKeys[k] \o <<"': '">> \o Tail(shades[k][2]) \o <<"',\n">>

\* C10: the palette image of n >= 1 colours has at most 3 columns, the
\* least number of rows of 3 that hold n, and is cols * 200 by rows * 200
C10_PaletteGrid ==
  (call = "generate_palette_image" /\ HAS_PIL /\ Len(colors) >= 1) =>
    /\ ret[1]
    /\ ret[2].cols >= 1 /\ ret[2].cols <= 3
    /\ 3 * (ret[2].rows - 1) < Len(colors) /\ Len(colors) <= 3 * ret[2].rows
    /\ ret[2].width = ret[2].cols * 200
    /\ ret[2].height = ret[2].rows * 200

\* The palette image of seven colours: three rows of three columns
C10_Witness ==
  /\ call = "generate_palette_image"
  /\ HAS_PIL
  /\ Len(colors) = 7
  /\ ret[2].cols = 3 /\ ret[2].rows = 3
  /\ ret[2].width = 600 /\ ret[2].height = 600

\* The PNG files the run has left in the working directory
PngFiles == {p \in DOMAIN files : IsSuffix(DOT_PNG, p)}

\* C11: a completed run with PIL on n >= 1 colours has left n + 1 distinct
\* PNG files: one swatch for each colour and the palette image
C11_OnePngPerColour ==
  (HAS_PIL /\ pc = "done" /\ Len(colors) >= 1) =>
    Cardinality(PngFiles) = Len(colors) + 1

\* The digits of a ColorEntry's hex and the value of each
LowerHexDigits == <<"0", "1", "2", "3", "4", "5", "6", "7", "8", "9",
                    "a", "b", "c", "d", "e", "f">>
DigitValue(c) == (CHOOSE v \in 1..16 : LowerHexDigits[v] = c) - 1

\* A ColorEntry as the data model has it
WellFormedEntry(e) ==
  /\ Len(e.hex) = 7
  /\ e.hex[1] = "#"
  /\ \A i \in 2..7 : \E v \in 1..16 : LowerHexDigits[v] = e.hex[i]
  /\ Len(e.rgb) = 3
  /\ \A i \in 1..3 :
       /\ e.rgb[i] \in 0..255
       /\ e.rgb[i] = 16 * DigitValue(e.hex[2 * i]) + DigitValue(e.hex[2 * i + 1])
  /\ Len(e.hsl) = 3
  /\ FLe(FInt(0), e.hsl[1]) /\ FLt(e.hsl[1], FInt(360))
  /\ FLe(FInt(0), e.hsl[2]) /\ FLe(e.hsl[2], FInt(100))
  /\ FLe(FInt(0), e.hsl[3]) /\ FLe(e.hsl[3], FInt(100))

\* C12: every entry of colors is well-formed (a '#' and six lowercase hex
\* digits, rgb the three channel values of the hex, h in [0, 360), s and l
\* in [0, 100]), and no step after the parse changes colors
C12_EntriesWellFormed ==
  /\ [](\A i \in 1..Len(colors) : WellFormedEntry(colors[i]))
  /\ [][pc # "parse" => colors' = colors]_vars

\* The run on "00FF00#Lime" has ended with the hex lowercased
C12_Witness ==
  /\ pc = "done"
  /\ Len(colors) >= 1
  /\ colors_txt.lines[1] = <<"0", "0", "F", "F", "0", "0", "#", "L", "i", "m", "e", "\n">>
  /\ colors[1].hex = <<"#", "0", "0", "f", "f", "0", "0">>
  /\ colors[1].rgb = <<0, 255, 0>>
  /\ Len(writes) >= 4

\* C13: the lightness generate_shades uses for a lighter step is strictly
\* between the base lightness and 1.0, and the one it uses for a darker step
\* strictly between 0.0 and the base lightness
C13_StepsStrictlyBetween ==
  call = "generate_shades" =>
    LET base_l == base_hls(arg)[2]
    IN  /\ \A i \in 1..Len(lighter_ratios) :
             LET lightness == lighter_lightness(base_l, lighter_ratios[i][2])
             IN  FLt(base_l, lightness) /\ FLt(lightness, FInt(1))
        /\ \A i \in 1..Len(darker_ratios) :
             LET lightness == darker_lightness(base_l, darker_ratios[i][2])
             IN  FLt(FInt(0), lightness) /\ FLt(lightness, base_l)

\* C14: in a run on at least one record nothing is written before the parse
\* is over, and no path is written twice
C14_EachPathWrittenOnce ==
  HasRecords =>
    /\ pc \in {"start", "parse"} => writes = <<>>
    /\ \A i, j \in 1..Len(writes) : i # j => writes[i] # writes[j]

\* C15: with PIL, each image renderer returns True with its image saved,
\* whatever fonts load; the font used is the first candidate, in the order of
\* the list, that loads, and the built-in default when none does
C15_FontFallback ==
  (/\ HAS_PIL
   /\ \/ call = "generate_color_image"
      \/ call = "generate_palette_image" /\ Len(colors) >= 1) =>
    /\ ret[1]
    /\ ret[2].kind \in {"swatch", "palette"}
    /\ IF \A i \in 1..Len(font_paths) : font_paths[i] \notin installed
       THEN ret[2].font = "load_default"
       ELSE \E i \in 1..Len(font_paths) :
              /\ ret[2].font = font_paths[i]
              /\ font_paths[i] \in installed
              /\ \A j \in 1..(i - 1) : font_paths[j] \notin installed

\* A swatch drawn where the first two candidates fail and the third and the
\* fifth load: the third is used
C15_Witness ==
  /\ HAS_PIL
  /\ call = "generate_color_image"
  /\ installed = {font_paths[3], font_paths[5]}
  /\ ret[1]
  /\ ret[2].font = font_paths[3]

\* C16: in the palette image of n >= 1 colours the colour at index idx is
\* drawn in the cell of row idx // cols and column idx % cols, which is inside
\* the grid; two colours never share a cell, the cells are filled row by row
\* in the order of the colours, and the last row is not empty
C16_PaletteCells ==
  (call = "generate_palette_image" /\ HAS_PIL /\ Len(colors) >= 1) =>
    LET g == ret[2]
        n == Len(colors)
    IN  /\ Len(g.cells) = n
        /\ \A i \in 1..n :
             /\ g.cells[i].row = (i - 1) \div g.cols
             /\ g.cells[i].col = (i - 1) % g.cols
             /\ g.cells[i].row >= 0 /\ g.cells[i].row < g.rows
             /\ g.cells[i].col >= 0 /\ g.cells[i].col < g.cols
             /\ g.cells[i].row * g.cols + g.cells[i].col = i - 1
             /\ g.cells[i].x = g.cells[i].col * 400
             /\ g.cells[i].y = g.cells[i].row * 400
             /\ g.cells[i].swatch.fill = colors[i].hex
        /\ \A i, j \in 1..n :
             i # j => <<g.cells[i].row, g.cells[i].col>> # <<g.cells[j].row, g.cells[j].col>>
        /\ (g.rows - 1) * g.cols < n /\ n <= g.rows * g.cols

\* The palette image of four colours: the fourth opens the second row
C16_Witness ==
  /\ call = "generate_palette_image"
  /\ HAS_PIL
  /\ Len(colors) = 4
  /\ ret[1]
  /\ ret[2].cells[3].row = 0 /\ ret[2].cells[3].col = 2
  /\ ret[2].cells[4].row = 1 /\ ret[2].cells[4].col = 0

====
